---- MODULE Spec2Model ----
(***************************************************************************)
(* Model of the prospect research and qualification engine of sales-mcp    *)
(* (src/tools/research.js, kept as src/unnamed/part_000): the fit scorer    *)
(* and tier assignment of researchCompany, batchResearch, and the contact  *)
(* extraction / prioritisation / quality scoring of findKeyContacts.       *)
(*                                                                         *)
(* The specifications of the module:                                       *)
(*   SpecScore    - one researchCompany call: resolve, analyse, score      *)
(*   SpecFit      - scoreCompanyFit applied to one analysis object         *)
(*   SpecBatch    - one batchResearch call over a list of companies        *)
(*   SpecTool     - the batch_research tool of src/index.js calling        *)
(*                  batchResearch with its company_names                   *)
(*   SpecContacts - one findKeyContacts call, and scoreAndVerifyContacts   *)
(*                  applied to externally supplied contacts                *)
(*   SpecQuality  - scoreAndVerifyContacts applied to one contact          *)
(*   SpecApi      - the email endpoints of src/api-server.js               *)
(*   SpecDash     - the MCP child process, POST /api/mcp/command and       *)
(*                  POST /api/clear-data of src/api-server.js              *)
(*   SpecFind     - one findCompanyWebsite call                            *)
(***************************************************************************)
EXTENDS Integers, Sequences, FiniteSets, TLC

VARIABLES
    \* researchCompany (SpecScore)
    rcPc,             \* position in researchCompany
    companyWebsite,   \* const companyWebsite (line 21)
    websiteAnalysis,  \* const websiteAnalysis (line 24)
    scoring,          \* const scoring (line 33)
    recommendation,   \* result.recommendation (lines 49-51)
    \* batchResearch (SpecBatch)
    bPc,              \* position in batchResearch
    companies,        \* the companies argument
    maxConcurrent,    \* options.maxConcurrent
    bI,               \* loop variable i
    inflight,         \* indexes of companies whose researchCompany call is pending
    settled,          \* index -> outcome of the chunk's promises settled so far
    results,          \* const results
    delays,           \* number of inter-chunk delays awaited so far
    chunks,           \* number of chunks started so far
    outcomes,         \* index -> what that company's researchCompany call did
    \* findKeyContacts / scoreAndVerifyContacts (SpecContacts)
    fkPc,             \* position in findKeyContacts
    websiteUrl,       \* the websiteUrl argument
    teamIdx,          \* index of the next team url to fetch (0 outside the loop)
    contacts,         \* const contacts
    prioritizedContacts, \* const prioritizedContacts (line 471)
    scoredContacts,   \* const scoredContacts / the returned list
    \* dashboard API server (SpecApi)
    emailsData,       \* let emailsData: the emails; an email's id is its position
    prospectsData,    \* let prospectsData: the prospects, each by its name
    \* the MCP process and the command endpoint of src/api-server.js (SpecDash)
    mcpProcess,       \* let mcpProcess: the child process last spawned, or NoProcess
    mcpStatus,        \* let mcpStatus
    procs,            \* the state of every child process spawned so far
    commands,         \* the /api/mcp/command requests received so far
    \* findCompanyWebsite (SpecFind)
    fwPc,             \* position in findCompanyWebsite
    fwName,           \* the companyName argument
    responses,        \* what each of the four probed domains answers
    probeIdx,         \* index of the domain being probed (0 outside the loop)
    fwResult          \* the returned url, or null

rcVars == <<rcPc, companyWebsite, websiteAnalysis, scoring, recommendation>>
bVars  == <<bPc, companies, maxConcurrent, bI, inflight, settled, results, delays,
           chunks, outcomes>>
fkVars == <<fkPc, websiteUrl, teamIdx, contacts, prioritizedContacts, scoredContacts>>
apiVars == <<emailsData, prospectsData>>
mcpVars == <<mcpProcess, mcpStatus, procs, commands>>
fwVars == <<fwPc, fwName, responses, probeIdx, fwResult>>
vars   == <<rcVars, bVars, fkVars, apiVars, fwVars, mcpVars>>

Null == "null"
Undefined == "undefined"

Min(a, b) == IF a < b THEN a ELSE b

(***************************************************************************)
(* Fit scorer                                                              *)
(***************************************************************************)

\* const majorPlatforms, in the iteration order of Object.entries
majorPlatforms ==
    << [name |-> "bubble",     boost |-> 20],
       [name |-> "webflow",    boost |-> 20],
       [name |-> "airtable",   boost |-> 18],
       [name |-> "zapier",     boost |-> 18],
       [name |-> "notion",     boost |-> 15],
       [name |-> "outsystems", boost |-> 18],
       [name |-> "adalo",      boost |-> 15],
       [name |-> "glide",      boost |-> 12],
       [name |-> "retool",     boost |-> 18],
       [name |-> "monday.com", boost |-> 15] >>

\* The seven categories of detectPlatformType, and its 'unknown'
PlatformTypes ==
    {"no-code", "crm", "project-management", "ecommerce", "automation",
     "analytics", "communication", "unknown"}

\* const platformScore; platformScore[type] || 5
platformScore(type) ==
    CASE type = "no-code"            -> 30
      [] type = "crm"                -> 25
      [] type = "project-management" -> 20
      [] type = "ecommerce"          -> 20
      [] type = "automation"         -> 25
      [] type = "analytics"          -> 15
      [] OTHER                       -> 5

\* analyzeCompanyWebsite's `return {}`: no field is present.  The record keeps
\* one shape; `empty` says that every field is absent (undefined).
EmptyAnalysis ==
    [ empty |-> TRUE, title |-> {}, website |-> {}, platform_type |-> "unknown",
      has_customers |-> FALSE, has_funding |-> FALSE, has_careers |-> FALSE,
      has_press |-> FALSE, has_case_studies |-> FALSE, growth_indicators |-> <<>>,
      has_api |-> FALSE, has_developers |-> FALSE, has_enterprise |-> FALSE,
      has_pricing |-> FALSE, pricing_model |-> Null, price_indicators |-> {} ]

\* What a fetched page shows to the analyzer.  titleNames is the set of
\* majorPlatforms names occurring in the lower-cased <title>; type is the
\* category detectPlatformType returns; the booleans are the body-text and
\* link tests of extractBusinessIndicators, extractPricingInfo and
\* content_analysis.
TitleSamples == { {}, {"bubble"}, {"glide"}, {"notion", "glide"} }

Pages ==
    [ titleNames : TitleSamples, type : PlatformTypes,
      customers : BOOLEAN, funding : BOOLEAN, careers : BOOLEAN, press : BOOLEAN,
      caseStudy : BOOLEAN, api : BOOLEAN, dev : BOOLEAN,
      enterpriseWord : BOOLEAN, businessWord : BOOLEAN, contactWord : BOOLEAN,
      pricingLinks : BOOLEAN, monthly : BOOLEAN, perUser : BOOLEAN ]

\* extractBusinessIndicators: growth_indicators.push(...) in source order
growthTags(p) ==
    (IF p.funding   THEN <<"funding">>      ELSE <<>>) \o
    (IF p.careers   THEN <<"hiring">>       ELSE <<>>) \o
    (IF p.press     THEN <<"press">>        ELSE <<>>) \o
    (IF p.caseStudy THEN <<"case_studies">> ELSE <<>>)

\* extractPricingInfo: the per-user test runs after the monthly one and overwrites it
pricingModel(p) ==
    IF p.perUser THEN "per_user" ELSE IF p.monthly THEN "subscription" ELSE Null

priceIndicators(p) ==
    (IF p.monthly THEN {"monthly_subscription"} ELSE {}) \cup
    (IF p.perUser THEN {"per_user_pricing"} ELSE {}) \cup
    (IF p.enterpriseWord /\ p.contactWord THEN {"enterprise_pricing"} ELSE {})

\* The object analyzeCompanyWebsite returns for a fetched and parsed page.
\* `website` is the set of majorPlatforms names occurring in the object's
\* website field; the returned object has no such field, which reads as ''
analysisOf(p) ==
    [ empty |-> FALSE, title |-> p.titleNames, website |-> {},
      platform_type |-> p.type,
      has_customers |-> p.customers, has_funding |-> p.funding,
      has_careers |-> p.careers, has_press |-> p.press,
      has_case_studies |-> p.caseStudy, growth_indicators |-> growthTags(p),
      has_api |-> p.api, has_developers |-> p.dev,
      has_enterprise |-> p.enterpriseWord \/ p.businessWord,
      has_pricing |-> p.pricingLinks, pricing_model |-> pricingModel(p),
      price_indicators |-> priceIndicators(p) ]

\* The first majorPlatforms entry (table order) whose name occurs in the
\* title or in websiteAnalysis.website; 0 when there is none
RECURSIVE recognitionFrom(_, _)
recognitionFrom(i, names) ==
    IF i > Len(majorPlatforms) THEN 0
    ELSE IF majorPlatforms[i].name \in names THEN majorPlatforms[i].boost
    ELSE recognitionFrom(i + 1, names)

\* Math.round((score / 120) * 100) in IEEE doubles: 69 / 120 * 100 evaluates to
\* 57.49999999999999, every other score in 0..120 rounds as the exact quotient
percentageOf(score) ==
    IF score = 69 THEN 57 ELSE (score * 200 + 120) \div 240

businessScoreCapNone(businessScore) == businessScore
businessScoreCap(businessScore) == Min(businessScore, 25)

scoreCompanyFit(a) ==
    LET companyName == IF a.empty THEN {} ELSE a.title
        websiteNames == IF a.empty THEN {} ELSE a.website
        recognitionBoost == recognitionFrom(1, companyName \cup websiteNames)
        hasType == ~a.empty
        typeScore == IF hasType THEN platformScore(a.platform_type) ELSE 0
        businessScore ==
            (IF ~a.empty /\ a.has_customers THEN 10 ELSE 0) +
            (IF ~a.empty /\ a.has_funding THEN 15 ELSE 0) +
            (IF ~a.empty /\ a.has_careers THEN 10 ELSE 0) +
            (IF ~a.empty /\ a.has_case_studies THEN 5 ELSE 0)
        techScore ==
            (IF ~a.empty /\ a.has_api THEN 15 ELSE 0) +
            (IF ~a.empty /\ a.has_developers THEN 10 ELSE 0) +
            (IF ~a.empty /\ a.has_enterprise THEN 5 ELSE 0)
        pricingScore ==
            (IF ~a.empty /\ a.has_pricing THEN 10 ELSE 0) +
            (IF ~a.empty /\ a.pricing_model = "subscription" THEN 5 ELSE 0) +
            (IF ~a.empty /\ "enterprise_pricing" \in a.price_indicators THEN 10 ELSE 0)
        growthScore ==
            IF a.empty THEN 0 ELSE Min(Len(a.growth_indicators) * 3, 10)
        score == recognitionBoost + typeScore + businessScoreCap(businessScore)
                 + Min(techScore, 20) + Min(pricingScore, 15) + growthScore
    IN  [ total_score |-> score,
          breakdown |->
            [ keys |-> {"platform_recognition", "business_indicators",
                        "technical_fit", "pricing_model", "growth_indicators"}
                       \cup (IF hasType THEN {"platform_type"} ELSE {}),
              platform_recognition |-> recognitionBoost,
              platform_type        |-> typeScore,
              business_indicators  |-> businessScoreCap(businessScore),
              technical_fit        |-> Min(techScore, 20),
              pricing_model        |-> Min(pricingScore, 15),
              growth_indicators    |-> growthScore ],
          max_possible |-> 120,
          percentage |-> percentageOf(score) ]

\* result.recommendation of researchCompany
recommendationOfStrict(total_score) ==
    IF total_score > 80 THEN "HOT_PROSPECT"
    ELSE IF total_score > 60 THEN "WARM_PROSPECT"
    ELSE IF total_score > 40 THEN "COLD_PROSPECT"
    ELSE "NOT_QUALIFIED"

recommendationOf(total_score) ==
    IF total_score >= 80 THEN "HOT_PROSPECT"
    ELSE IF total_score >= 60 THEN "WARM_PROSPECT"
    ELSE IF total_score >= 40 THEN "COLD_PROSPECT"
    ELSE "NOT_QUALIFIED"

NoScoring == scoreCompanyFit(EmptyAnalysis)

\* The website researchCompany works with: the caller's argument, or what
\* findCompanyWebsite returns (an alias url, a probed url, or null)
WebsiteSamples == {Null, "https://bubble.io", "https://acme.com"}


\* Step 1 of researchCompany: website || await findCompanyWebsite(companyName)
RcResolve ==
    /\ rcPc = "start"
    /\ \E w \in WebsiteSamples : companyWebsite' = w
    /\ rcPc' = "resolved"
    /\ UNCHANGED <<websiteAnalysis, scoring, recommendation>>

RcAnalyzeNoGuard ==
    /\ rcPc = "resolved"
    /\ \/ websiteAnalysis' = EmptyAnalysis
       \/ \E p \in Pages : websiteAnalysis' = analysisOf(p)
    /\ rcPc' = "analyzed"
    /\ UNCHANGED <<companyWebsite, scoring, recommendation>>

\* Step 2, analyzeCompanyWebsite: {} without a website or when the fetch or the
\* parse throws, else the analysis of the fetched page
RcAnalyze ==
    /\ rcPc = "resolved"
    /\ \/ websiteAnalysis' = EmptyAnalysis
       \/ /\ companyWebsite # Null
          /\ \E p \in Pages : websiteAnalysis' = analysisOf(p)
    /\ rcPc' = "analyzed"
    /\ UNCHANGED <<companyWebsite, scoring, recommendation>>

\* Steps 5 and 6 and the result object: scoreCompanyFit and the recommendation
RcScore ==
    /\ rcPc = "analyzed"
    /\ scoring' = scoreCompanyFit(websiteAnalysis)
    /\ recommendation' = recommendationOf(scoring'.total_score)
    /\ rcPc' = "done"
    /\ UNCHANGED <<companyWebsite, websiteAnalysis>>

\* scoreCompanyFit as a function of its argument: the analysis objects it can
\* be handed, every field chosen on its own (growth_indicators is any list of
\* up to four tags, whatever the has_* flags say), and one object that
\* carries a website field
GrowthSamples ==
    { <<>>, <<"funding">>, <<"funding", "hiring">>, <<"funding", "hiring", "press">>,
      <<"funding", "hiring", "press", "case_studies">> }

FitAnalyses ==
    {EmptyAnalysis, [EmptyAnalysis EXCEPT !.empty = FALSE, !.website = {"bubble"}]} \cup
    [ empty : {FALSE}, title : TitleSamples, website : { {} },
      platform_type : PlatformTypes,
      has_customers : BOOLEAN, has_funding : BOOLEAN, has_careers : BOOLEAN,
      has_press : {FALSE}, has_case_studies : BOOLEAN,
      growth_indicators : GrowthSamples,
      has_api : BOOLEAN, has_developers : BOOLEAN, has_enterprise : BOOLEAN,
      has_pricing : BOOLEAN, pricing_model : {Null, "subscription", "per_user"},
      price_indicators : { {}, {"enterprise_pricing"} } ]

\* one call scoreCompanyFit(websiteAnalysis, companyIntel), and the tier
\* researchCompany derives from its total
FitScore ==
    /\ rcPc = "fit"
    /\ scoring' = scoreCompanyFit(websiteAnalysis)
    /\ recommendation' = recommendationOf(scoring'.total_score)
    /\ rcPc' = "fitted"
    /\ UNCHANGED <<companyWebsite, websiteAnalysis>>

FitInit ==
    /\ rcPc = "fit"
    /\ companyWebsite = Null
    /\ websiteAnalysis \in FitAnalyses
    /\ scoring = NoScoring
    /\ recommendation = "none"

RcInit ==
    /\ rcPc = "start"
    /\ companyWebsite = Null
    /\ websiteAnalysis = EmptyAnalysis
    /\ scoring = NoScoring
    /\ recommendation = "none"

(***************************************************************************)
(* batchResearch                                                           *)
(***************************************************************************)

MaxCompanies == 5
MaxConcurrentBound == 3
\* caps the chunk counter when maxConcurrent = 0 keeps the loop from advancing
MaxChunks == 6

CompanyNames == <<"c1", "c2", "c3", "c4", "c5", "c6", "c7">>

\* What one researchCompany call of the batch can do: throw an error with a
\* message, or return the research of some analysis
BatchAnalyses ==
    { EmptyAnalysis,
      analysisOf([ titleNames |-> {}, type |-> "crm",
                   customers |-> TRUE, funding |-> FALSE, careers |-> TRUE,
                   press |-> FALSE, caseStudy |-> FALSE, api |-> TRUE, dev |-> FALSE,
                   enterpriseWord |-> FALSE, businessWord |-> FALSE,
                   contactWord |-> FALSE, pricingLinks |-> FALSE,
                   monthly |-> FALSE, perUser |-> FALSE ]),
      analysisOf([ titleNames |-> {"bubble"}, type |-> "no-code",
                   customers |-> TRUE, funding |-> TRUE, careers |-> TRUE,
                   press |-> FALSE, caseStudy |-> TRUE, api |-> TRUE, dev |-> TRUE,
                   enterpriseWord |-> FALSE, businessWord |-> FALSE,
                   contactWord |-> FALSE, pricingLinks |-> TRUE,
                   monthly |-> TRUE, perUser |-> FALSE ]) }

ErrorMessages == {"timeout"}

RcOutcomes ==
    [threw : {TRUE}, message : ErrorMessages, analysis : {EmptyAnalysis}] \cup
    [threw : {FALSE}, message : {""}, analysis : BatchAnalyses]

\* An element of the companies array.  batchResearch reads company.name and
\* company.website: an object { name } has the name, a string has neither
\* property (both are undefined)
companyObject(n) == [name |-> n, asString |-> Undefined]
companyString(n) == [name |-> Undefined, asString |-> n]

\* researchCompany(company.name, company.website).  Without a name
\* findCompanyWebsite catches its own TypeError (companyName.toLowerCase) and
\* returns null, so the analysis is {} and the call returns; with a name the
\* network decides
outcomesFor(company) ==
    IF company.name = Undefined
    THEN [threw : {FALSE}, message : {""}, analysis : {EmptyAnalysis}]
    ELSE RcOutcomes

\* The value one element of batchPromises resolves to (lines 1101-1113): the
\* research result with its input, or the error record of the catch block.
\* company_name is result.company.name
batchPromiseNoCatch(company, out) ==
    LET sc == scoreCompanyFit(out.analysis) IN
    [ input |-> company, isError |-> FALSE, error |-> "", rejected |-> out.threw,
      company_name |-> company.name, total_score |-> sc.total_score,
      recommendation |-> recommendationOf(sc.total_score) ]

batchPromise(company, out) ==
    IF out.threw
    THEN [ input |-> company, isError |-> TRUE, error |-> out.message,
           rejected |-> FALSE, company_name |-> Undefined, total_score |-> 0,
           recommendation |-> "RESEARCH_FAILED" ]
    ELSE LET sc == scoreCompanyFit(out.analysis) IN
         [ input |-> company, isError |-> FALSE, error |-> "", rejected |-> FALSE,
           company_name |-> company.name, total_score |-> sc.total_score,
           recommendation |-> recommendationOf(sc.total_score) ]

\* companies.slice(i, i + maxConcurrent), as 1-based positions
chunkOfRest(i, mc, n) == { k \in 1..n : i < k }
chunkOf(i, mc, n) == { k \in 1..n : i < k /\ k <= i + mc }

\* if (i + maxConcurrent < companies.length): a delay follows this chunk
needsDelayAlways(i, mc, n) == TRUE
needsDelay(i, mc, n) == i + mc < n

\* a.scoring?.total_score || 0
sortScore(r) == IF r.isError THEN 0 ELSE r.total_score

\* Array.prototype.sort is stable.  The elements are keyed ([k, v]) by the
\* number the comparator orders them by, ascending: x goes before the first
\* element that the comparator puts strictly after it
RECURSIVE insertStable(_, _)
insertStable(sorted, x) ==
    IF sorted = <<>> THEN <<x>>
    ELSE IF Head(sorted).k > x.k THEN <<x>> \o sorted
    ELSE <<Head(sorted)>> \o insertStable(Tail(sorted), x)

RECURSIVE sortKeyed(_)
sortKeyed(s) ==
    IF s = <<>> THEN <<>>
    ELSE insertStable(sortKeyed(SubSeq(s, 1, Len(s) - 1)), s[Len(s)])

unkey(s) == [i \in 1..Len(s) |-> s[i].v]

\* results.sort((a, b) => scoreB - scoreA)
sortResults(rs) ==
    unkey(sortKeyed([i \in 1..Len(rs) |-> [k |-> 0 - sortScore(rs[i]), v |-> rs[i]]]))

N == Len(companies)

\* for (let i = 0; i < companies.length; ...): start the chunk's researches, or
\* leave the loop
BLoop ==
    /\ bPc = "loop"
    /\ IF bI < N
       THEN /\ chunks < MaxChunks
            /\ inflight' = chunkOf(bI, maxConcurrent, N)
            /\ settled' = [k \in {} |-> 0]
            /\ chunks' = chunks + 1
            /\ bPc' = "await"
            /\ UNCHANGED results
       ELSE /\ bPc' = "sort"
            /\ UNCHANGED <<inflight, settled, chunks, results>>
    /\ UNCHANGED <<companies, maxConcurrent, bI, delays, outcomes>>

\* one researchCompany call of the running chunk settles
BSettle ==
    /\ bPc = "await"
    /\ \E k \in inflight : \E out \in outcomesFor(companies[k]) :
          /\ inflight' = inflight \ {k}
          /\ settled' = [j \in DOMAIN settled \cup {k} |->
                            IF j = k THEN [ out |-> out,
                                            value |-> batchPromise(companies[k], out) ]
                            ELSE settled[j]]
          /\ outcomes' = [j \in DOMAIN outcomes \cup {k} |->
                            IF j = k THEN out ELSE outcomes[j]]
    /\ UNCHANGED <<bPc, companies, maxConcurrent, bI, results, delays, chunks>>

RECURSIVE chunkValues(_, _, _)
chunkValues(st, lo, hi) ==
    IF lo > hi THEN <<>>
    ELSE (IF lo \in DOMAIN st THEN <<st[lo].value>> ELSE <<>>) \o chunkValues(st, lo + 1, hi)

\* await Promise.all(batchPromises); results.push(...batchResults); then the
\* delay test
BJoin ==
    /\ bPc = "await"
    /\ inflight = {}
    /\ IF \E k \in DOMAIN settled : settled[k].value.rejected
       THEN /\ bPc' = "aborted"
            /\ UNCHANGED <<results, bI>>
       ELSE /\ results' = results \o chunkValues(settled, bI + 1, Min(bI + maxConcurrent, N))
            /\ IF needsDelay(bI, maxConcurrent, N)
               THEN bPc' = "delay" /\ UNCHANGED bI
               ELSE bPc' = "loop" /\ bI' = bI + maxConcurrent
    /\ UNCHANGED <<companies, maxConcurrent, inflight, settled, delays, chunks, outcomes>>

\* the setTimeout of the inter-chunk delay fires; i += maxConcurrent
BDelay ==
    /\ bPc = "delay"
    /\ delays' = delays + 1
    /\ bI' = bI + maxConcurrent
    /\ bPc' = "loop"
    /\ UNCHANGED <<companies, maxConcurrent, inflight, settled, results, chunks, outcomes>>

\* results.sort(...); return results
BSort ==
    /\ bPc = "sort"
    /\ results' = sortResults(results)
    /\ bPc' = "done"
    /\ UNCHANGED <<companies, maxConcurrent, bI, inflight, settled, delays, chunks, outcomes>>

BIdle ==
    /\ bPc = "idle"
    /\ companies = <<>>
    /\ maxConcurrent = 0
    /\ bI = 0
    /\ inflight = {}
    /\ settled = [k \in {} |-> 0]
    /\ results = <<>>
    /\ delays = 0
    /\ chunks = 0
    /\ outcomes = [k \in {} |-> 0]

BInit ==
    /\ bPc = "loop"
    /\ \E n \in 0..MaxCompanies :
          companies = [k \in 1..n |-> companyObject(CompanyNames[k])]
    /\ maxConcurrent \in 0..MaxConcurrentBound
    /\ bI = 0
    /\ inflight = {}
    /\ settled = [k \in {} |-> 0]
    /\ results = <<>>
    /\ delays = 0
    /\ chunks = 0
    /\ outcomes = [k \in {} |-> 0]


(***************************************************************************)
(* Strings.  A JavaScript string is modelled as the sequence of its        *)
(* characters, so that includes, split, replace, toLowerCase and the       *)
(* regular-expression tests are computed on the text as the code does.     *)
(***************************************************************************)

UpperChars == <<"A", "B", "C", "D", "E", "F", "G", "H", "I", "J", "K", "L", "M", "N", "O", "P", "Q", "R", "S", "T", "U", "V", "W", "X", "Y", "Z">>
LowerChars == <<"a", "b", "c", "d", "e", "f", "g", "h", "i", "j", "k", "l", "m", "n", "o", "p", "q", "r", "s", "t", "u", "v", "w", "x", "y", "z">>
DigitChars == <<"0", "1", "2", "3", "4", "5", "6", "7", "8", "9">>

s_ceo == <<"c", "e", "o">>
s_founder == <<"f", "o", "u", "n", "d", "e", "r">>
s_cto == <<"c", "t", "o">>
s_cpo == <<"c", "p", "o">>
s_vp == <<"v", "p">>
s_director == <<"d", "i", "r", "e", "c", "t", "o", "r">>
s_head == <<"h", "e", "a", "d">>
s_head_of == <<"h", "e", "a", "d", " ", "o", "f">>
s_chief == <<"c", "h", "i", "e", "f">>
s_president == <<"p", "r", "e", "s", "i", "d", "e", "n", "t">>
s_manager == <<"m", "a", "n", "a", "g", "e", "r">>
s_vice_president == <<"v", "i", "c", "e", " ", "p", "r", "e", "s", "i", "d", "e", "n", "t">>
s_CEO == <<"C", "E", "O">>
s_Founder == <<"F", "o", "u", "n", "d", "e", "r">>
s_CTO == <<"C", "T", "O">>
s_CPO == <<"C", "P", "O">>
s_VP == <<"V", "P">>
s_Director == <<"D", "i", "r", "e", "c", "t", "o", "r">>
s_TeamMember == <<"T", "e", "a", "m", " ", "M", "e", "m", "b", "e", "r">>
s_ChiefExecutiveOfficer == <<"C", "h", "i", "e", "f", " ", "E", "x", "e", "c", "u", "t", "i", "v", "e", " ", "O", "f", "f", "i", "c", "e", "r">>
s_ChiefTechnologyOfficer == <<"C", "h", "i", "e", "f", " ", "T", "e", "c", "h", "n", "o", "l", "o", "g", "y", " ", "O", "f", "f", "i", "c", "e", "r">>
s_ChiefProductOfficer == <<"C", "h", "i", "e", "f", " ", "P", "r", "o", "d", "u", "c", "t", " ", "O", "f", "f", "i", "c", "e", "r">>
s_VicePresident == <<"V", "i", "c", "e", " ", "P", "r", "e", "s", "i", "d", "e", "n", "t">>
s_DecisionMaker == <<"D", "e", "c", "i", "s", "i", "o", "n", " ", "M", "a", "k", "e", "r">>
s_CEOFounder == <<"C", "E", "O", "/", "F", "o", "u", "n", "d", "e", "r">>
s_CTOVPEngineering == <<"C", "T", "O", "/", "V", "P", " ", "E", "n", "g", "i", "n", "e", "e", "r", "i", "n", "g">>
s_ContactFromWebsite == <<"C", "o", "n", "t", "a", "c", "t", " ", "f", "r", "o", "m", " ", "w", "e", "b", "s", "i", "t", "e">>
s_ContactResearchNeeded == <<"C", "o", "n", "t", "a", "c", "t", " ", "R", "e", "s", "e", "a", "r", "c", "h", " ", "N", "e", "e", "d", "e", "d">>
s_http == <<"h", "t", "t", "p", ":", "/", "/">>
s_https == <<"h", "t", "t", "p", "s", ":", "/", "/">>
s_www == <<"w", "w", "w", ".">>
s_gmail == <<"g", "m", "a", "i", "l", ".", "c", "o", "m">>
s_outlook == <<"o", "u", "t", "l", "o", "o", "k", ".", "c", "o", "m">>
s_hotmail == <<"h", "o", "t", "m", "a", "i", "l", ".", "c", "o", "m">>
s_yahoo == <<"y", "a", "h", "o", "o", ".", "c", "o", "m">>
s_info_at == <<"i", "n", "f", "o", "@">>
s_hello_at == <<"h", "e", "l", "l", "o", "@">>
s_contact_at == <<"c", "o", "n", "t", "a", "c", "t", "@">>
s_support_at == <<"s", "u", "p", "p", "o", "r", "t", "@">>
s_sales_at == <<"s", "a", "l", "e", "s", "@">>
s_site == <<"h", "t", "t", "p", "s", ":", "/", "/", "c", "o", ".", "i", "o">>
s_site_www == <<"h", "t", "t", "p", "s", ":", "/", "/", "w", "w", "w", ".", "c", "o", ".", "i", "o", "/">>
n_cher == <<"C", "h", "e", "r">>
n_bob_ray == <<"b", "o", "b", " ", "R", "A", "Y">>
n_eve_fox == <<"E", "v", "e", " ", "F", "o", "x">>
n_amy_poe == <<"a", "m", "y", " ", "p", "o", "e">>
m_eve == <<"e", "v", "e">>
m_pat == <<"p", "a", "t", "@", "c", "o", ".", "i", "o">>
m_sam == <<"s", "a", "m", "@", "g", "m", "a", "i", "l", ".", "c", "o", "m">>
m_info == <<"i", "n", "f", "o", "@", "c", "o", ".", "i", "o">>
m_ann == <<"a", "n", "n", "@", "x", ".", "o", "r", "g">>


indexIn(seq, c) ==
    IF \E i \in 1..Len(seq) : seq[i] = c
    THEN CHOOSE i \in 1..Len(seq) : seq[i] = c
    ELSE 0

UpperSet == { UpperChars[i] : i \in 1..Len(UpperChars) }
LowerSet == { LowerChars[i] : i \in 1..Len(LowerChars) }
DigitSet == { DigitChars[i] : i \in 1..Len(DigitChars) }
lowerOf == [c \in UpperSet |-> LowerChars[indexIn(UpperChars, c)]]
upperOf == [c \in LowerSet |-> UpperChars[indexIn(LowerChars, c)]]

\* String.prototype.toLowerCase / toUpperCase on one character
toLowerChar(c) == IF c \in UpperSet THEN lowerOf[c] ELSE c
toUpperChar(c) == IF c \in LowerSet THEN upperOf[c] ELSE c

toLowerCase(s) == [i \in 1..Len(s) |-> toLowerChar(s[i])]

isLowerLetter(c) == c \in LowerSet
\* the regular-expression classes \w and \s
isWordChar(c) == c \in LowerSet \/ c \in UpperSet \/ c \in DigitSet \/ c = "_"
isSpace(c) == c = " "

matchesAt(s, sub, i) ==
    i + Len(sub) - 1 <= Len(s) /\ SubSeq(s, i, i + Len(sub) - 1) = sub

\* String.prototype.includes / indexOf (1-based, 0 when absent) / startsWith
includes(s, sub) == \E i \in 1..(Len(s) - Len(sub) + 1) : matchesAt(s, sub, i)
indexOf(s, sub) ==
    IF includes(s, sub)
    THEN CHOOSE i \in 1..(Len(s) - Len(sub) + 1) :
            matchesAt(s, sub, i) /\ \A j \in 1..(i - 1) : ~matchesAt(s, sub, j)
    ELSE 0
startsWith(s, sub) == matchesAt(s, sub, 1)

\* String.prototype.split on a one-character separator
RECURSIVE split(_, _)
split(s, ch) ==
    LET i == indexOf(s, <<ch>>) IN
    IF i = 0 THEN <<s>>
    ELSE <<SubSeq(s, 1, i - 1)>> \o split(SubSeq(s, i + 1, Len(s)), ch)

\* Array.prototype.join
RECURSIVE join(_, _)
join(parts, sep) ==
    IF parts = <<>> THEN <<>>
    ELSE IF Len(parts) = 1 THEN parts[1]
    ELSE parts[1] \o sep \o join(Tail(parts), sep)

nonEmpty(s) == s # <<>>

(***************************************************************************)
(* Contact titles, priorities and names                                    *)
(***************************************************************************)

\* calculateContactPriorityScore: the first matching substring test decides
calculateContactPriorityScore(title) ==
    LET titleLower == toLowerCase(title) IN
    IF title = <<>> THEN 9
    ELSE IF includes(titleLower, s_ceo) THEN 1
    ELSE IF includes(titleLower, s_founder) THEN 2
    ELSE IF includes(titleLower, s_cto) THEN 3
    ELSE IF includes(titleLower, s_cpo) THEN 4
    ELSE IF includes(titleLower, s_vp) THEN 5
    ELSE IF includes(titleLower, s_director) THEN 6
    ELSE IF includes(titleLower, s_head) THEN 7
    ELSE IF includes(titleLower, s_manager) THEN 8
    ELSE 9

calculateContactPriority(title) ==
    LET titleLower == toLowerCase(title) IN
    IF title = <<>> THEN "low"
    ELSE IF includes(titleLower, s_ceo) \/ includes(titleLower, s_founder) THEN "critical"
    ELSE IF includes(titleLower, s_cto) \/ includes(titleLower, s_cpo) THEN "high"
    ELSE IF includes(titleLower, s_vp) \/ includes(titleLower, s_vice_president) THEN "high"
    ELSE "medium"

\* normalizeTitle: titleMap[lowerTitle] || title
normalizeTitle(title) ==
    LET lowerTitle == toLowerCase(title) IN
    IF lowerTitle = s_ceo THEN s_ChiefExecutiveOfficer
    ELSE IF lowerTitle = s_cto THEN s_ChiefTechnologyOfficer
    ELSE IF lowerTitle = s_cpo THEN s_ChiefProductOfficer
    ELSE IF lowerTitle = s_founder THEN s_Founder
    ELSE IF lowerTitle = s_vp THEN s_VicePresident
    ELSE title

capitalize(word) ==
    IF word = <<>> THEN <<>>
    ELSE <<toUpperChar(word[1])>> \o toLowerCase(Tail(word))

\* cleanName: replace(/[^\w\s-'\.]/g, ' '), collapse whitespace, trim, then
\* capitalise each word
cleanName(name) ==
    LET kept == [i \in 1..Len(name) |->
                    IF isWordChar(name[i]) \/ isSpace(name[i])
                        \/ name[i] \in {"-", "'", "."}
                    THEN name[i] ELSE " "]
        words == SelectSeq(split(kept, " "), nonEmpty)
    IN  join([i \in 1..Len(words) |-> capitalize(words[i])], <<" ">>)

(***************************************************************************)
(* Contact quality scoring and email checks                                *)
(***************************************************************************)

\* validateEmailFormat: /^[^\s@]+@[^\s@]+\.[^\s@]+$/
plainRun(s, lo, hi) ==
    lo <= hi /\ \A i \in lo..hi : ~isSpace(s[i]) /\ s[i] # "@"

validateEmailFormat(email) ==
    /\ email # <<>>
    /\ \E at \in 1..Len(email), dot \in 1..Len(email) :
          /\ email[at] = "@"
          /\ email[dot] = "."
          /\ plainRun(email, 1, at - 1)
          /\ plainRun(email, at + 1, dot - 1)
          /\ plainRun(email, dot + 1, Len(email))

\* companyWebsite.replace(/https?:\/\/(www\.)?/, '').split('/')[0]
stripScheme(url) ==
    LET i == indexOf(url, s_https)
        j == indexOf(url, s_http)
        at == IF i > 0 /\ (j = 0 \/ i < j) THEN i ELSE j
        len == IF at = i /\ i > 0 THEN Len(s_https) ELSE Len(s_http)
        end == IF at > 0 /\ matchesAt(url, s_www, at + len)
               THEN at + len + Len(s_www) ELSE at + len
    IN  IF at = 0 THEN url
        ELSE SubSeq(url, 1, at - 1) \o SubSeq(url, end, Len(url))

websiteDomainOf(url) == split(stripScheme(url), "/")[1]

businessProviders == {s_gmail, s_outlook, s_hotmail, s_yahoo}

\* estimateEmailDeliverability; the website is [kind, url]
estimateEmailDeliverability(email, companyWebsiteArg) ==
    IF email = <<>> \/ ~validateEmailFormat(email)
    THEN [risk |-> "high", reason |-> "Invalid email format"]
    ELSE LET emailDomain == split(email, "@")[2] IN
         IF companyWebsiteArg.kind = "string"
            /\ emailDomain = websiteDomainOf(companyWebsiteArg.url)
         THEN [risk |-> "low", reason |-> "Email domain matches company website"]
         ELSE IF emailDomain \in businessProviders
         THEN [risk |-> "medium", reason |-> "Personal email provider"]
         ELSE [risk |-> "low", reason |-> "Custom business domain"]

titlePointsTwoBands(titleScore) ==
    IF titleScore <= 4 THEN 40
    ELSE IF titleScore <= 6 THEN 25
    ELSE 5

titlePoints(titleScore) ==
    IF titleScore <= 2 THEN 40
    ELSE IF titleScore <= 4 THEN 35
    ELSE IF titleScore <= 5 THEN 25
    ELSE IF titleScore <= 6 THEN 15
    ELSE 5

\* calculateContactQualityScore.  extractedAt is [present, age]: age is the
\* whole number of days between the extractedAt timestamp and Date.now()
calculateContactQualityScore(contact) ==
    LET titleScore == calculateContactPriorityScore(contact.title)
        emailPts == IF contact.email # <<>> /\ contact.verified THEN 25
                    ELSE IF contact.email # <<>> THEN 15 ELSE 0
        sourcePts == IF contact.source = "website_team_page" THEN 20
                     ELSE IF contact.source = "contact_page" THEN 15
                     ELSE IF contact.source = "text_extraction" THEN 10
                     ELSE 5
        linkedinPts == IF contact.linkedin THEN 10 ELSE 0
        recencyPts == IF ~contact.extractedAt.present THEN 0
                      ELSE IF contact.extractedAt.age <= 1 THEN 5
                      ELSE IF contact.extractedAt.age <= 7 THEN 3
                      ELSE IF contact.extractedAt.age <= 30 THEN 1
                      ELSE 0
        score == titlePoints(titleScore) + emailPts + sourcePts + linkedinPts + recencyPts
    IN  [ score |-> Min(score, 100),
          maxScore |-> 100,
          \* Math.round((Math.min(score, 100) / 100) * 100) is the score itself
          \* for every integer 0..100
          percentage |-> Min(score, 100),
          breakdown |->
            [ present |-> TRUE,
              title_priority |-> Min(40, titlePoints(titleScore)),
              email_verification |-> emailPts,
              source_quality |-> sourcePts,
              linkedin_profile |-> linkedinPts,
              recency |-> IF contact.extractedAt.present THEN 5 ELSE 0 ] ]

\* recommendedForOutreach: qualityScore.percentage >= 60 && emailValidation
recommendedIgnoringFormat(qualityScore, emailValidation) ==
    qualityScore.percentage >= 60

recommended(qualityScore, emailValidation) ==
    qualityScore.percentage >= 60 /\ emailValidation

scoreContact(contact, companyWebsiteArg) ==
    LET qualityScore == calculateContactQualityScore(contact)
        emailValidation == validateEmailFormat(contact.email)
        deliverability == estimateEmailDeliverability(contact.email, companyWebsiteArg)
    IN  [ contact |-> contact,
          scored |-> TRUE,
          qualityScore |-> qualityScore,
          emailValidation |-> [isValid |-> emailValidation, deliverability |-> deliverability],
          recommendedForOutreach |-> recommended(qualityScore, emailValidation),
          outreachRisk |-> deliverability.risk ]

scoreAndVerifyContactsUnsorted(cs, companyWebsiteArg) ==
    [i \in 1..Len(cs) |-> scoreContact(cs[i], companyWebsiteArg)]

\* scoreAndVerifyContacts: map, then sort by descending qualityScore.score
scoreAndVerifyContacts(cs, companyWebsiteArg) ==
    LET mapped == [i \in 1..Len(cs) |-> scoreContact(cs[i], companyWebsiteArg)]
    IN  unkey(sortKeyed([i \in 1..Len(mapped) |->
                            [k |-> 0 - mapped[i].qualityScore.score, v |-> mapped[i]]]))

\* prioritizeContacts: sort by ascending title-priority rank, slice(0, 5)
MaxContacts == 5

firstN(s, n) == SubSeq(s, 1, Min(Len(s), n))

sortByRank(cs) ==
    unkey(sortKeyed([i \in 1..Len(cs) |->
                        [k |-> calculateContactPriorityScore(cs[i].title), v |-> cs[i]]]))

prioritizeContactsNoSlice(cs) == sortByRank(cs)
prioritizeContactsNoSort(cs) == firstN(cs, MaxContacts)

prioritizeContacts(cs) == firstN(sortByRank(cs), MaxContacts)


(***************************************************************************)
(* Contact extraction                                                      *)
(***************************************************************************)

NoDate == [present |-> FALSE, age |-> 0]
\* new Date().toISOString() at extraction, scored within the same call
JustNow == [present |-> TRUE, age |-> 0]

\* const titleKeywords of extractContactFromElement, in order, with the title
\* each one gives
titleKeywords ==
    << [kw |-> s_ceo,       title |-> s_CEO],
       [kw |-> s_founder,   title |-> s_Founder],
       [kw |-> s_cto,       title |-> s_CTO],
       [kw |-> s_cpo,       title |-> s_CPO],
       [kw |-> s_vp,        title |-> s_VP],
       [kw |-> s_director,  title |-> capitalize(s_director)],
       [kw |-> s_head_of,   title |-> <<"H">> \o Tail(s_head_of)],
       [kw |-> s_chief,     title |-> capitalize(s_chief)],
       [kw |-> s_president, title |-> capitalize(s_president)],
       [kw |-> s_manager,   title |-> capitalize(s_manager)] >>

\* the keyword scan over the element's lower-cased text: the first keyword
\* of the list that the text includes
RECURSIVE inferTitleFrom(_, _)
inferTitleFrom(i, elementText) ==
    IF i > Len(titleKeywords) THEN <<>>
    ELSE IF includes(elementText, titleKeywords[i].kw) THEN titleKeywords[i].title
    ELSE inferTitleFrom(i + 1, elementText)

longWord(part) == Len(part) > 1
lowerOrSpace(c) == isLowerLetter(c) \/ isSpace(c)

\* the speculative address firstname.lastname@domain (lines 613-630); <<>>
\* when the name has fewer than two parts or there is no domain
synthesizedEmail(name, website) ==
    LET lowered == toLowerCase(name)
        letters == SelectSeq(lowered, lowerOrSpace)
        cleanNameForEmail == SelectSeq(split(letters, " "), longWord)
        domain == IF website.kind = "string" THEN websiteDomainOf(website.url) ELSE <<>>
    IN  IF Len(cleanNameForEmail) >= 2 /\ domain # <<>>
        THEN cleanNameForEmail[1] \o <<".">> \o cleanNameForEmail[Len(cleanNameForEmail)]
             \o <<"@">> \o domain
        ELSE <<>>

\* extractContactFromElement.  An element is what the selector cascades read
\* from it: name (the text the name cascade resolves, <<>> if none), title (the
\* text the title selectors find, <<>> if none), text (its lower-cased text, for
\* the keyword scan), mailto (the mailto link without its scheme), textEmail
\* (the first email pattern in its text), linkedin (a linkedin.com link
\* exists).  The result is <<contact>>, or <<>> for `return null`.
extractContactFromElement(el, source, website) ==
    LET name == el.name
        title == IF Len(el.title) > 2 THEN el.title
                 ELSE IF name # <<>> THEN inferTitleFrom(1, el.text)
                 ELSE <<>>
        email == IF el.mailto # <<>> THEN el.mailto
                 ELSE IF el.textEmail # <<>> THEN el.textEmail
                 ELSE IF name # <<>> THEN synthesizedEmail(name, website)
                 ELSE <<>>
    IN  IF name # <<>> /\ Len(name) > 2
        THEN << [ name |-> cleanName(name),
                  title |-> IF title # <<>> THEN title ELSE s_TeamMember,
                  email |-> email,
                  linkedin |-> el.linkedin,
                  source |-> source,
                  priority |-> calculateContactPriority(title),
                  verified |-> email # <<>>,
                  extractedAt |-> JustNow ] >>
        ELSE <<>>

contactKey(c) == toLowerCase(c.name) \o <<"-">> \o toLowerCase(c.title)

\* the selector loops of findKeyContacts (lines 428-444) over the results of
\* extractContactFromElement for the elements the selectors match, in visiting
\* order: a contact is kept unless its key was already found on this page
RECURSIVE collectMembers(_, _, _)
collectMembers(extracted, foundMembers, acc) ==
    IF extracted = <<>> THEN acc
    ELSE LET ex == Head(extracted) IN
         IF ex # <<>> /\ ex[1].name # <<>> /\ ex[1].title # <<>>
            /\ contactKey(ex[1]) \notin foundMembers
         THEN collectMembers(Tail(extracted), foundMembers \cup {contactKey(ex[1])},
                             acc \o ex)
         ELSE collectMembers(Tail(extracted), foundMembers, acc)

\* extractContactsFromText over the (name, title) pairs its patterns match in
\* the page text, line by line and pattern by pattern
RECURSIVE extractContactsFromText(_)
extractContactsFromText(matches) ==
    IF matches = <<>> THEN <<>>
    ELSE LET m == Head(matches) IN
         (IF Len(m.name) > 3 /\ Len(m.name) < 30
          THEN << [ name |-> cleanName(m.name),
                    title |-> normalizeTitle(m.title),
                    email |-> <<>>,
                    linkedin |-> FALSE,
                    source |-> "text_extraction",
                    priority |-> calculateContactPriority(m.title),
                    verified |-> FALSE,
                    extractedAt |-> JustNow ] >>
          ELSE <<>>) \o extractContactsFromText(Tail(matches))

\* /^(info|hello|contact|support|sales)@/i
isGenericEmail(email) ==
    LET l == toLowerCase(email) IN
    \/ startsWith(l, s_info_at) \/ startsWith(l, s_hello_at)
    \/ startsWith(l, s_contact_at) \/ startsWith(l, s_support_at)
    \/ startsWith(l, s_sales_at)

\* findContactInfoFromPages on the mailto addresses of the first contact page
\* that could be fetched
RECURSIVE contactPageContacts(_)
contactPageContacts(mailtos) ==
    IF mailtos = <<>> THEN <<>>
    ELSE (IF ~isGenericEmail(Head(mailtos))
          THEN << [ name |-> s_ContactFromWebsite,
                    title |-> s_TeamMember,
                    email |-> Head(mailtos),
                    linkedin |-> FALSE,
                    source |-> "contact_page",
                    priority |-> "medium",
                    verified |-> TRUE,
                    extractedAt |-> JustNow ] >>
          ELSE <<>>) \o contactPageContacts(Tail(mailtos))

\* the two research-needed placeholders (lines 480-506)
placeholderScore(score) ==
    [ score |-> score, maxScore |-> 0, percentage |-> score,
      breakdown |-> [ present |-> FALSE, title_priority |-> 0, email_verification |-> 0,
                      source_quality |-> 0, linkedin_profile |-> 0, recency |-> 0 ] ]

placeholder(name, title, priority, score) ==
    [ contact |-> [ name |-> name, title |-> title, email |-> <<>>, linkedin |-> FALSE,
                    source |-> "research_needed", priority |-> priority,
                    verified |-> FALSE, extractedAt |-> NoDate ],
      scored |-> TRUE,
      qualityScore |-> placeholderScore(score),
      emailValidation |-> [ isValid |-> FALSE,
                            deliverability |-> [risk |-> "high", reason |-> "No email found"] ],
      recommendedForOutreach |-> FALSE,
      outreachRisk |-> "high" ]

researchNeededNone == <<>>

researchNeeded ==
    << placeholder(s_CEOFounder, s_ChiefExecutiveOfficer, "critical", 40),
       placeholder(s_CTOVPEngineering, s_ChiefTechnologyOfficer, "high", 35) >>

\* the contact returned by the catch block (lines 517-525): it carries no
\* qualityScore, emailValidation, recommendedForOutreach or outreachRisk
researchFailed ==
    << [ contact |-> [ name |-> s_ContactResearchNeeded, title |-> s_DecisionMaker,
                       email |-> <<>>, linkedin |-> FALSE, source |-> "research_failed",
                       priority |-> "high", verified |-> FALSE, extractedAt |-> NoDate ],
         scored |-> FALSE,
         qualityScore |-> placeholderScore(0),
         emailValidation |-> [ isValid |-> FALSE,
                               deliverability |-> [risk |-> "high", reason |-> ""] ],
         recommendedForOutreach |-> FALSE,
         outreachRisk |-> "" ] >>

\* lines 470-513: prioritise, score, add the placeholders when nothing is left
finishContacts(cs, website) ==
    LET prioritized == prioritizeContacts(cs)
        scoredList == scoreAndVerifyContacts(prioritized, website)
        highQualityContacts ==
            SelectSeq(scoredList, LAMBDA c : c.qualityScore.percentage >= 60)
    IN  IF Len(highQualityContacts) = 0 /\ Len(scoredList) = 0
        THEN scoredList \o researchNeeded
        ELSE scoredList

\* const teamUrls, without the base url
teamPaths ==
    << "/team", "/about", "/leadership", "/about-us", "/our-team", "/founders",
       "/management", "/executive-team", "/people", "/company/team",
       "/company/leadership" >>


\* What the caller passes as websiteUrl: null, a url string, or a truthy value
\* that is no string (websiteUrl.replace then throws inside the outer try)
NoWebsite == [kind |-> "null", url |-> <<>>]
WebsiteArgs ==
    { NoWebsite, [kind |-> "string", url |-> s_site], [kind |-> "other", url |-> <<>>] }

MaxElements == 4
MaxMatches == 1
MaxMailtos == 2
MaxExternal == 2

SeqsUpTo(S, n) == UNION { [1..k -> S] : k \in 0..n }

element(name, title, text, mailto, linkedin) ==
    [ name |-> name, title |-> title, text |-> text, mailto |-> mailto,
      textEmail |-> <<>>, linkedin |-> linkedin ]

ElementSamples ==
    { element(n_cher, s_CEO, s_ceo, <<>>, FALSE),
      element(n_bob_ray, <<>>, s_founder, <<>>, FALSE),
      element(n_eve_fox, s_CTO, s_cto, m_eve, TRUE),
      element(n_cher, <<>>, s_director, m_sam, FALSE),
      element(<<>>, s_CEO, s_ceo, m_pat, FALSE) }

MatchSamples ==
    { [name |-> n_amy_poe, title |-> s_ceo], [name |-> n_amy_poe, title |-> s_founder] }

MailtoSamples == { m_info, m_pat, m_sam }

TeamPages ==
    [ elements : SeqsUpTo(ElementSamples, MaxElements),
      matches : SeqsUpTo(MatchSamples, MaxMatches) ]

\* contacts handed to scoreAndVerifyContacts by an outside caller
ExternalContacts ==
    { [ name |-> n_eve_fox, title |-> t, email |-> e.email, linkedin |-> src.linkedin,
        source |-> src.source, priority |-> "medium", verified |-> e.verified,
        extractedAt |-> d ] :
        t \in {s_CEO, s_TeamMember},
        e \in { [email |-> <<>>, verified |-> FALSE],
                [email |-> m_pat, verified |-> TRUE],
                [email |-> m_eve, verified |-> TRUE] },
        src \in { [source |-> "website_team_page", linkedin |-> TRUE],
                  [source |-> "manual", linkedin |-> FALSE] },
        d \in { NoDate, JustNow, [present |-> TRUE, age |-> 40] } }

(***************************************************************************)
(* findKeyContacts                                                         *)
(***************************************************************************)

\* entry: if (websiteUrl) { const baseUrl = websiteUrl.replace(...)
FkEnter ==
    /\ fkPc = "start"
    /\ IF websiteUrl.kind = "null"
       THEN fkPc' = "finish" /\ UNCHANGED <<teamIdx, scoredContacts>>
       ELSE IF websiteUrl.kind = "string"
       THEN fkPc' = "team" /\ teamIdx' = 1 /\ UNCHANGED scoredContacts
       ELSE fkPc' = "done" /\ scoredContacts' = researchFailed /\ UNCHANGED teamIdx
    /\ UNCHANGED <<websiteUrl, contacts, prioritizedContacts>>

\* leaving one iteration of the team-url loop without contacts
nextTeamUrl ==
    IF teamIdx < Len(teamPaths)
    THEN fkPc' = "team" /\ teamIdx' = teamIdx + 1
    ELSE fkPc' = "contactPages" /\ teamIdx' = 0

\* axios.get(teamUrl) throws or times out: continue
FkTeamFetchFail ==
    /\ fkPc = "team"
    /\ nextTeamUrl
    /\ UNCHANGED <<websiteUrl, contacts, prioritizedContacts, scoredContacts>>

\* extractContactFromElement($el, 'website_team_page', websiteUrl) for every
\* sample element
teamElementContact ==
    [ w \in { a \in WebsiteArgs : a.kind = "string" } |->
        [ el \in ElementSamples |-> extractContactFromElement(el, "website_team_page", w) ] ]

\* one iteration of the team-url loop on a fetched page (contacts is empty
\* whenever a page is fetched): the structured members, else the text fallback
teamPageContacts(page, website) ==
    LET structured ==
            collectMembers([i \in 1..Len(page.elements) |->
                               teamElementContact[website][page.elements[i]]], {}, <<>>)
    IN  IF structured = <<>> THEN extractContactsFromText(page.matches)
        ELSE structured

\* the contact lists one loop iteration can extract from the pages of TeamPages
teamPageResults ==
    [ w \in { a \in WebsiteArgs : a.kind = "string" } |->
        { teamPageContacts(page, w) : page \in TeamPages } ]

FkTeamPageNoBreak ==
    /\ fkPc = "team"
    /\ \E found \in teamPageResults[websiteUrl] : contacts' = contacts \o found
    /\ nextTeamUrl
    /\ UNCHANGED <<websiteUrl, prioritizedContacts, scoredContacts>>

\* axios.get(teamUrl) returns a page: extract, break when contacts were found
FkTeamPage ==
    /\ fkPc = "team"
    /\ \E found \in teamPageResults[websiteUrl] :
          /\ contacts' = contacts \o found
          /\ IF Len(contacts') > 0
             THEN fkPc' = "contactPages" /\ teamIdx' = 0
             ELSE nextTeamUrl
    /\ UNCHANGED <<websiteUrl, prioritizedContacts, scoredContacts>>

\* findContactInfoFromPages: every contact url fails (no contacts), or the
\* first one that answers gives its mailto addresses
contactPageResults ==
    { contactPageContacts(mailtos) : mailtos \in SeqsUpTo(MailtoSamples, MaxMailtos) }

FkContactPages ==
    /\ fkPc = "contactPages"
    /\ \E found \in contactPageResults : contacts' = contacts \o found
    /\ fkPc' = "finish"
    /\ UNCHANGED <<websiteUrl, teamIdx, prioritizedContacts, scoredContacts>>

\* lines 470-513
FkFinish ==
    /\ fkPc = "finish"
    /\ prioritizedContacts' = prioritizeContacts(contacts)
    /\ scoredContacts' = finishContacts(contacts, websiteUrl)
    /\ fkPc' = "done"
    /\ UNCHANGED <<websiteUrl, teamIdx, contacts>>

\* scoreAndVerifyContacts called directly on supplied contacts
FkExternal ==
    /\ fkPc = "start"
    /\ \E cs \in SeqsUpTo(ExternalContacts, MaxExternal) :
          /\ contacts' = cs
          /\ scoredContacts' = scoreAndVerifyContacts(cs, websiteUrl)
    /\ fkPc' = "verified"
    /\ UNCHANGED <<websiteUrl, teamIdx, prioritizedContacts>>

\* calculateContactQualityScore as a function of its argument: single contacts
\* with every combination of the fields the score reads
QualityTitles ==
    { s_CEO, s_Founder, s_CTO, s_CPO, s_VP, s_Director, <<"H">> \o Tail(s_head_of),
      capitalize(s_manager), s_TeamMember, <<>> }

QualityDates ==
    {NoDate} \cup { [present |-> TRUE, age |-> d] : d \in {0, 1, 2, 7, 8, 30, 31} }

QualityContacts ==
    { [ name |-> n_eve_fox, title |-> t, email |-> e.email, linkedin |-> l,
        source |-> src, priority |-> "medium", verified |-> e.verified,
        extractedAt |-> d ] :
        t \in QualityTitles,
        e \in { [email |-> <<>>, verified |-> FALSE],
                [email |-> <<>>, verified |-> TRUE],
                [email |-> m_pat, verified |-> TRUE],
                [email |-> m_pat, verified |-> FALSE],
                [email |-> m_sam, verified |-> TRUE],
                [email |-> m_eve, verified |-> TRUE] },
        l \in BOOLEAN,
        src \in {"website_team_page", "contact_page", "text_extraction", "manual"},
        d \in QualityDates }

\* scoreAndVerifyContacts([contact], companyWebsite)
FkQuality ==
    /\ fkPc = "quality"
    /\ scoredContacts' = scoreAndVerifyContacts(contacts, websiteUrl)
    /\ fkPc' = "verified"
    /\ UNCHANGED <<websiteUrl, teamIdx, contacts, prioritizedContacts>>

QualityInit ==
    /\ fkPc = "quality"
    /\ websiteUrl \in { a \in WebsiteArgs : a.kind \in {"null", "string"} }
    /\ teamIdx = 0
    /\ \E c \in QualityContacts : contacts = <<c>>
    /\ prioritizedContacts = <<>>
    /\ scoredContacts = <<>>

FkIdle ==
    /\ fkPc = "idle"
    /\ websiteUrl = NoWebsite
    /\ teamIdx = 0
    /\ contacts = <<>>
    /\ prioritizedContacts = <<>>
    /\ scoredContacts = <<>>

FkInit ==
    /\ fkPc = "start"
    /\ websiteUrl \in WebsiteArgs
    /\ teamIdx = 0
    /\ contacts = <<>>
    /\ prioritizedContacts = <<>>
    /\ scoredContacts = <<>>

(***************************************************************************)
(* findCompanyWebsite                                                      *)
(***************************************************************************)

\* The companyName argument: undefined (companyName.toLowerCase() throws a
\* TypeError inside the outer try), a name that includes the knownDomains key
\* 'bubble', or a name that includes no key
FindNames == {Undefined, "bubble", "acme"}

\* knownDomains lookup: the url of the first key the lower-cased name includes
knownDomainOf(name) == IF name = "bubble" THEN "https://bubble.io" ELSE Null

\* const possibleDomains, for the token 'acme'
possibleDomains ==
    << "https://acme.com", "https://www.acme.com", "https://acme.io",
       "https://www.acme.io" >>

\* What a probed domain does: 0 is a network error or the 5 s timeout, any
\* other number is the HTTP status of the final response
ProbeAnswers == {0, 200, 204, 304, 404}

\* validateStatus: (status) => status < 400; axios.get rejects otherwise
probeThrows(answer) == answer = 0 \/ ~(answer < 400)

\* entry: the outer try, the knownDomains loop
FwEnter ==
    /\ fwPc = "start"
    /\ IF fwName = Undefined
       THEN fwPc' = "done" /\ fwResult' = Null /\ UNCHANGED probeIdx
       ELSE IF knownDomainOf(fwName) # Null
       THEN fwPc' = "done" /\ fwResult' = knownDomainOf(fwName) /\ UNCHANGED probeIdx
       ELSE fwPc' = "probe" /\ probeIdx' = 1 /\ UNCHANGED fwResult
    /\ UNCHANGED <<fwName, responses>>

\* one iteration of `for (const domain of possibleDomains)`, and the return
\* null after the loop
FwProbe ==
    /\ fwPc = "probe"
    /\ IF ~probeThrows(responses[probeIdx]) /\ responses[probeIdx] = 200
       THEN fwPc' = "done" /\ fwResult' = possibleDomains[probeIdx] /\ probeIdx' = 0
       ELSE IF probeIdx < Len(possibleDomains)
       THEN probeIdx' = probeIdx + 1 /\ UNCHANGED <<fwPc, fwResult>>
       ELSE fwPc' = "done" /\ fwResult' = Null /\ probeIdx' = 0
    /\ UNCHANGED <<fwName, responses>>

FwIdle ==
    /\ fwPc = "idle"
    /\ fwName = Undefined
    /\ responses = <<>>
    /\ probeIdx = 0
    /\ fwResult = Null

FwInit ==
    /\ fwPc = "start"
    /\ fwName \in FindNames
    /\ responses \in [1..Len(possibleDomains) -> ProbeAnswers]
    /\ probeIdx = 0
    /\ fwResult = Null

(***************************************************************************)
(* The email endpoints of the dashboard API server (src/api-server.js)     *)
(***************************************************************************)

MaxEmails == 3

\* POST /api/generate-email for a known prospect: emailsData.push(mockEmail)
\* with status 'pending' (sentAt is not set)
ApiGenerateEmail ==
    /\ Len(emailsData) < MaxEmails
    /\ prospectsData # <<>>
    /\ emailsData' = Append(emailsData, [status |-> "pending", sentAt |-> FALSE])
    /\ UNCHANGED prospectsData

\* the switch of POST /api/email-action over the three valid actions
emailAfter(email, action) ==
    CASE action = "approve" -> [email EXCEPT !.status = "approved"]
      [] action = "reject"  -> [email EXCEPT !.status = "rejected"]
      [] action = "send"    -> [status |-> "sent", sentAt |-> TRUE]

\* POST /api/email-action { emailId, action } for an email that is found and
\* a valid action (every other request is answered 400 or 404 and changes
\* nothing)
ApiEmailAction ==
    /\ \E emailId \in 1..Len(emailsData), action \in {"approve", "reject", "send"} :
          emailsData' = [emailsData EXCEPT ![emailId] = emailAfter(@, action)]
    /\ UNCHANGED prospectsData

\* POST /api/clear-data
ApiClearData ==
    /\ emailsData # <<>> \/ prospectsData # <<>>
    /\ prospectsData' = <<>>
    /\ emailsData' = <<>>

\* let prospectsData = []; let emailsData = []
ApiIdle == emailsData = <<>> /\ prospectsData = <<>>

\* the email endpoints start from a server that has researched one prospect
ApiInit == emailsData = <<>> /\ prospectsData = << "Acme" >>

(***************************************************************************)
(* The MCP child process and POST /api/mcp/command of src/api-server.js    *)
(***************************************************************************)

MaxProcesses == 2
MaxCommands == 2
MaxListed == 2

\* let mcpProcess = null: child processes are numbered from 1 in spawn order
NoProcess == 0

\* company names a command can name or discoverCompanies can return
CommandNames == {"Acme", "acme", "Bolt"}

\* name.toLowerCase() of a company name
lowerCaseName(name) ==
    IF name = "Acme" THEN "acme" ELSE IF name = "Bolt" THEN "bolt" ELSE name

\* the company lists of a research command: intent.specific_companies, or
\* what discoverCompanies returns
CompanyLists == SeqsUpTo(CommandNames, MaxListed)

\* mcpProcess.kill(): a signal to a process that still runs; its 'close'
\* event comes later
kill(ps, pid) == [ps EXCEPT ![pid] = IF @ = "running" THEN "killed" ELSE @]

\* startMCPServer, called by POST /api/mcp/start
ApiMcpStart ==
    /\ Len(procs) < MaxProcesses
    /\ procs' = Append(IF mcpProcess # NoProcess THEN kill(procs, mcpProcess) ELSE procs,
                       "running")
    /\ mcpProcess' = Len(procs) + 1
    /\ mcpStatus' = "connecting"
    /\ UNCHANGED <<commands, apiVars>>

\* POST /api/mcp/stop with a process (without one nothing changes)
ApiMcpStop ==
    /\ mcpProcess # NoProcess
    /\ procs' = kill(procs, mcpProcess)
    /\ mcpStatus' = "disconnected"
    /\ UNCHANGED <<mcpProcess, commands, apiVars>>

\* stdout 'data' handler of process pid, for output that includes
\* 'Sales MCP Server started'
McpStdout ==
    \E pid \in 1..Len(procs) :
        /\ procs[pid] = "running"
        /\ mcpStatus' = "connected"
        /\ UNCHANGED <<mcpProcess, procs, commands, apiVars>>

\* stderr 'data' handler of process pid, for text that includes 'Error:'
McpStderr ==
    \E pid \in 1..Len(procs) :
        /\ procs[pid] = "running"
        /\ mcpStatus' = "error"
        /\ UNCHANGED <<mcpProcess, procs, commands, apiVars>>

\* 'close' handler of process pid: the process was killed, or ended by itself
McpClose ==
    \E pid \in 1..Len(procs) :
        /\ procs[pid] \in {"running", "killed"}
        /\ procs' = [procs EXCEPT ![pid] = "closed"]
        /\ mcpStatus' = "disconnected"
        /\ UNCHANGED <<mcpProcess, commands, apiVars>>

\* 'error' handler of process pid: a signal could not be delivered
McpError ==
    \E pid \in 1..Len(procs) :
        /\ procs[pid] = "running"
        /\ mcpStatus' = "error"
        /\ UNCHANGED <<mcpProcess, procs, commands, apiVars>>

\* POST /api/mcp/command up to `await interpretCommand(command)`; a request
\* without a connected MCP server is answered 400 and changes nothing
ApiCommand ==
    /\ Len(commands) < MaxCommands
    /\ mcpProcess # NoProcess /\ mcpStatus = "connected"
    /\ commands' = Append(commands, [pc |-> "interpret", uniqueCompanies |-> <<>>])
    /\ UNCHANGED <<mcpProcess, mcpStatus, procs, apiVars>>

\* const uniqueCompanies = companies.filter(...)
uniqueCompaniesOf(listed, prospects) ==
    LET existingNames == { lowerCaseName(prospects[i]) : i \in 1..Len(prospects) }
    IN  SelectSeq(listed, LAMBDA company : lowerCaseName(company) \notin existingNames)

\* a research command from the interpreted intent to `await Promise.all`:
\* the companies are named or discovered, then filtered against prospectsData
CmdFilter ==
    \E i \in 1..Len(commands), listed \in CompanyLists :
        /\ commands[i].pc = "interpret"
        /\ commands' = [commands EXCEPT ![i] =
               [pc |-> "research",
                uniqueCompanies |-> uniqueCompaniesOf(listed, prospectsData)]]
        /\ UNCHANGED <<mcpProcess, mcpStatus, procs, apiVars>>

\* a command that is no research command (email, help, unknown) is answered
\* without touching the data
CmdOther ==
    \E i \in 1..Len(commands) :
        /\ commands[i].pc = "interpret"
        /\ commands' = [commands EXCEPT ![i] = [pc |-> "done", uniqueCompanies |-> <<>>]]
        /\ UNCHANGED <<mcpProcess, mcpStatus, procs, apiVars>>

\* after Promise.all: every researched or failed company gives one prospect
\* with name: company.name; prospectsData.push(...newProspects)
CmdPush ==
    \E i \in 1..Len(commands) :
        /\ commands[i].pc = "research"
        /\ prospectsData' = prospectsData \o commands[i].uniqueCompanies
        /\ commands' = [commands EXCEPT ![i] = [pc |-> "done", uniqueCompanies |-> <<>>]]
        /\ UNCHANGED <<mcpProcess, mcpStatus, procs, emailsData>>

\* let mcpProcess = null; let mcpStatus = 'disconnected'
McpInit ==
    /\ mcpProcess = NoProcess
    /\ mcpStatus = "disconnected"
    /\ procs = <<>>
    /\ commands = <<>>

(***************************************************************************)
(* The batch_research tool of the MCP server (src/index.js)                *)
(***************************************************************************)

\* const { delay = 2000, maxConcurrent = 3 } = options, with options = {}
DefaultMaxConcurrent == 3

\* the strings of args.company_names
ToolNames == { CompanyNames[1], CompanyNames[2] }

\* case 'batch_research': batchResearch(args.company_names) is entered with the
\* array of strings as companies and no options
ToolCall ==
    /\ bPc = "tool"
    /\ maxConcurrent' = DefaultMaxConcurrent
    /\ bPc' = "loop"
    /\ UNCHANGED <<companies, bI, inflight, settled, results, delays, chunks, outcomes>>

ToolInit ==
    /\ bPc = "tool"
    /\ \E names \in SeqsUpTo(ToolNames, MaxCompanies) :
          companies = [k \in 1..Len(names) |-> companyString(names[k])]
    /\ maxConcurrent = 0
    /\ bI = 0
    /\ inflight = {}
    /\ settled = [k \in {} |-> 0]
    /\ results = <<>>
    /\ delays = 0
    /\ chunks = 0
    /\ outcomes = [k \in {} |-> 0]

RcIdle ==
    /\ rcPc = "idle"
    /\ companyWebsite = Null
    /\ websiteAnalysis = EmptyAnalysis
    /\ scoring = NoScoring
    /\ recommendation = "none"

(***************************************************************************)
(* Specifications                                                          *)
(***************************************************************************)

InitScore == RcInit /\ BIdle /\ FkIdle /\ ApiIdle /\ FwIdle /\ McpInit
NextScore ==
    \/ RcResolve /\ UNCHANGED <<bVars, fkVars, apiVars, fwVars, mcpVars>>
    \/ RcAnalyze /\ UNCHANGED <<bVars, fkVars, apiVars, fwVars, mcpVars>>
    \/ RcScore /\ UNCHANGED <<bVars, fkVars, apiVars, fwVars, mcpVars>>
SpecScore == InitScore /\ [][NextScore]_vars

InitFit == FitInit /\ BIdle /\ FkIdle /\ ApiIdle /\ FwIdle /\ McpInit
NextFit == FitScore /\ UNCHANGED <<bVars, fkVars, apiVars, fwVars, mcpVars>>
SpecFit == InitFit /\ [][NextFit]_vars

InitTool == RcIdle /\ ToolInit /\ FkIdle /\ ApiIdle /\ FwIdle /\ McpInit
NextTool ==
    \/ ToolCall /\ UNCHANGED <<rcVars, fkVars, apiVars, fwVars, mcpVars>>
    \/ BLoop /\ UNCHANGED <<rcVars, fkVars, apiVars, fwVars, mcpVars>>
    \/ BSettle /\ UNCHANGED <<rcVars, fkVars, apiVars, fwVars, mcpVars>>
    \/ BJoin /\ UNCHANGED <<rcVars, fkVars, apiVars, fwVars, mcpVars>>
    \/ BDelay /\ UNCHANGED <<rcVars, fkVars, apiVars, fwVars, mcpVars>>
    \/ BSort /\ UNCHANGED <<rcVars, fkVars, apiVars, fwVars, mcpVars>>
SpecTool == InitTool /\ [][NextTool]_vars

InitApi == RcIdle /\ BIdle /\ FkIdle /\ ApiInit /\ FwIdle /\ McpInit
NextApi ==
    \/ ApiGenerateEmail /\ UNCHANGED <<rcVars, bVars, fkVars, fwVars, mcpVars>>
    \/ ApiEmailAction /\ UNCHANGED <<rcVars, bVars, fkVars, fwVars, mcpVars>>
    \/ ApiClearData /\ UNCHANGED <<rcVars, bVars, fkVars, fwVars, mcpVars>>
SpecApi == InitApi /\ [][NextApi]_vars

InitDash == RcIdle /\ BIdle /\ FkIdle /\ ApiIdle /\ FwIdle /\ McpInit
NextDash ==
    \/ ApiMcpStart /\ UNCHANGED <<rcVars, bVars, fkVars, fwVars>>
    \/ ApiMcpStop /\ UNCHANGED <<rcVars, bVars, fkVars, fwVars>>
    \/ McpStdout /\ UNCHANGED <<rcVars, bVars, fkVars, fwVars>>
    \/ McpStderr /\ UNCHANGED <<rcVars, bVars, fkVars, fwVars>>
    \/ McpClose /\ UNCHANGED <<rcVars, bVars, fkVars, fwVars>>
    \/ McpError /\ UNCHANGED <<rcVars, bVars, fkVars, fwVars>>
    \/ ApiCommand /\ UNCHANGED <<rcVars, bVars, fkVars, fwVars>>
    \/ CmdFilter /\ UNCHANGED <<rcVars, bVars, fkVars, fwVars>>
    \/ CmdOther /\ UNCHANGED <<rcVars, bVars, fkVars, fwVars>>
    \/ CmdPush /\ UNCHANGED <<rcVars, bVars, fkVars, fwVars>>
    \/ ApiClearData /\ UNCHANGED <<rcVars, bVars, fkVars, fwVars, mcpVars>>
SpecDash == InitDash /\ [][NextDash]_vars

InitFind == RcIdle /\ BIdle /\ FkIdle /\ ApiIdle /\ FwInit /\ McpInit
NextFind ==
    \/ FwEnter /\ UNCHANGED <<rcVars, bVars, fkVars, apiVars, mcpVars>>
    \/ FwProbe /\ UNCHANGED <<rcVars, bVars, fkVars, apiVars, mcpVars>>
SpecFind == InitFind /\ [][NextFind]_vars

InitQuality == RcIdle /\ BIdle /\ QualityInit /\ ApiIdle /\ FwIdle /\ McpInit
NextQuality == FkQuality /\ UNCHANGED <<rcVars, bVars, apiVars, fwVars, mcpVars>>
SpecQuality == InitQuality /\ [][NextQuality]_vars

InitBatch == RcIdle /\ BInit /\ FkIdle /\ ApiIdle /\ FwIdle /\ McpInit
NextBatch ==
    \/ BLoop /\ UNCHANGED <<rcVars, fkVars, apiVars, fwVars, mcpVars>>
    \/ BSettle /\ UNCHANGED <<rcVars, fkVars, apiVars, fwVars, mcpVars>>
    \/ BJoin /\ UNCHANGED <<rcVars, fkVars, apiVars, fwVars, mcpVars>>
    \/ BDelay /\ UNCHANGED <<rcVars, fkVars, apiVars, fwVars, mcpVars>>
    \/ BSort /\ UNCHANGED <<rcVars, fkVars, apiVars, fwVars, mcpVars>>
SpecBatch == InitBatch /\ [][NextBatch]_vars

InitContacts == RcIdle /\ BIdle /\ FkInit /\ ApiIdle /\ FwIdle /\ McpInit
NextContacts ==
    \/ FkEnter /\ UNCHANGED <<rcVars, bVars, apiVars, fwVars, mcpVars>>
    \/ FkTeamFetchFail /\ UNCHANGED <<rcVars, bVars, apiVars, fwVars, mcpVars>>
    \/ FkTeamPage /\ UNCHANGED <<rcVars, bVars, apiVars, fwVars, mcpVars>>
    \/ FkContactPages /\ UNCHANGED <<rcVars, bVars, apiVars, fwVars, mcpVars>>
    \/ FkFinish /\ UNCHANGED <<rcVars, bVars, apiVars, fwVars, mcpVars>>
    \/ FkExternal /\ UNCHANGED <<rcVars, bVars, apiVars, fwVars, mcpVars>>
SpecContacts == InitContacts /\ [][NextContacts]_vars


(***************************************************************************)
(* Properties                                                              *)
(***************************************************************************)

\* C1: every ScoringResult of researchCompany has 0 <= total_score <= 120 and
\* each breakdown factor within its cap (20, 30, 25, 20, 15, 10).
C1_ScoreWithinCaps ==
    rcPc = "done" =>
        /\ scoring.total_score >= 0
        /\ scoring.total_score <= 120
        /\ scoring.breakdown.platform_recognition \in 0..20
        /\ scoring.breakdown.platform_type \in 0..30
        /\ scoring.breakdown.business_indicators \in 0..25
        /\ scoring.breakdown.technical_fit \in 0..20
        /\ scoring.breakdown.pricing_model \in 0..15
        /\ scoring.breakdown.growth_indicators \in 0..10

\* a research whose indicators add up to more than the caps and whose total
\* reaches the maximum
C1_Witness ==
    /\ rcPc = "done"
    /\ websiteAnalysis.has_customers /\ websiteAnalysis.has_funding
    /\ websiteAnalysis.has_careers /\ websiteAnalysis.has_case_studies
    /\ Len(websiteAnalysis.growth_indicators) = 4
    /\ scoring.breakdown.business_indicators = 25
    /\ scoring.total_score = 120

tierRank(tier) ==
    CASE tier = "HOT_PROSPECT"  -> 3
      [] tier = "WARM_PROSPECT" -> 2
      [] tier = "COLD_PROSPECT" -> 1
      [] OTHER                  -> 0

\* C2: the recommendation is HOT_PROSPECT for a score >= 80, WARM_PROSPECT for
\* 60..79, COLD_PROSPECT for 40..59 and NOT_QUALIFIED below 40, and no lower
\* score gets a more qualified tier.
C2_TierByThreshold ==
    rcPc = "done" =>
        /\ (recommendation = "HOT_PROSPECT")  <=> (scoring.total_score >= 80)
        /\ (recommendation = "WARM_PROSPECT") <=>
              (scoring.total_score >= 60 /\ scoring.total_score < 80)
        /\ (recommendation = "COLD_PROSPECT") <=>
              (scoring.total_score >= 40 /\ scoring.total_score < 60)
        /\ (recommendation = "NOT_QUALIFIED") <=> (scoring.total_score < 40)
        /\ \A s1 \in 0..120 :
              s1 < scoring.total_score =>
                  tierRank(recommendationOf(s1)) <= tierRank(recommendation)

\* a research that scores exactly the boundary 80 and is a hot prospect
C2_Witness ==
    rcPc = "done" /\ scoring.total_score = 80 /\ recommendation = "HOT_PROSPECT"

\* the format the pattern local@domain.tld asks for, stated on the text
emailShape(e) ==
    /\ Cardinality({ i \in 1..Len(e) : e[i] = "@" }) = 1
    /\ \A i \in 1..Len(e) : e[i] # " "
    /\ LET at == CHOOSE i \in 1..Len(e) : e[i] = "@" IN
          /\ at > 1
          /\ \E dot \in (at + 2)..(Len(e) - 1) : e[dot] = "."

\* C3: a returned contact is recommended for outreach only if its quality
\* percentage is at least 60 and its email is well formed; never with no email.
C3_RecommendedOnlyIfValid ==
    fkPc \in {"done", "verified"} =>
        \A i \in 1..Len(scoredContacts) :
            scoredContacts[i].recommendedForOutreach =>
                /\ scoredContacts[i].scored
                /\ scoredContacts[i].qualityScore.percentage >= 60
                /\ scoredContacts[i].contact.email # <<>>
                /\ emailShape(scoredContacts[i].contact.email)

\* findKeyContacts returns a recommended contact next to one that scores 60 or
\* more but is not recommended because its email is malformed
C3_Witness ==
    /\ fkPc = "done"
    /\ \E i, j \in 1..Len(scoredContacts) :
          /\ scoredContacts[i].recommendedForOutreach
          /\ ~scoredContacts[j].recommendedForOutreach
          /\ scoredContacts[j].qualityScore.percentage >= 60
          /\ scoredContacts[j].contact.email # <<>>

entriesFor(k) == { i \in 1..Len(results) : results[i].input = companies[k] }

\* C4: batchResearch never aborts; when it returns, the array has one entry
\* per input company: the error record (input and message) of a company whose
\* research threw, the research result of every other company.
C4_OneEntryPerCompany ==
    /\ bPc # "aborted"
    /\ bPc = "done" =>
          /\ Len(results) = Len(companies)
          /\ \A k \in 1..Len(companies) :
                /\ Cardinality(entriesFor(k)) = 1
                /\ \A i \in entriesFor(k) :
                      IF outcomes[k].threw
                      THEN /\ results[i].isError
                           /\ results[i].error = outcomes[k].message
                           /\ results[i].recommendation = "RESEARCH_FAILED"
                      ELSE /\ ~results[i].isError
                           /\ results[i].total_score =
                                 scoreCompanyFit(outcomes[k].analysis).total_score

\* a finished batch in which some researches threw and others returned
C4_Witness ==
    /\ bPc = "done"
    /\ Len(companies) >= 3
    /\ \E k \in 1..Len(companies) : outcomes[k].threw
    /\ \E k \in 1..Len(companies) : ~outcomes[k].threw

\* C5: at most maxConcurrent researchCompany calls are in flight.
C5_ConcurrencyCeiling == Cardinality(inflight) <= maxConcurrent

\* a full chunk is in flight while more companies are still waiting
C5_Witness ==
    /\ maxConcurrent >= 2
    /\ Cardinality(inflight) = maxConcurrent
    /\ Len(companies) > bI + maxConcurrent

ceilDiv(a, b) == (a + b - 1) \div b

\* C6: while a chunk runs, every company of the earlier chunks has settled
\* and is in results and one delay has elapsed per earlier chunk; a finished
\* batch ran ceil(n / maxConcurrent) chunks with one delay less than chunks.
C6_ChunksInSequence ==
    /\ bPc = "await" =>
          /\ inflight \subseteq chunkOf(bI, maxConcurrent, Len(companies))
          /\ Len(results) = bI
          /\ bI = (chunks - 1) * maxConcurrent
          /\ delays = chunks - 1
    /\ bPc = "delay" => inflight = {} /\ delays = chunks - 1
    /\ bPc = "done" /\ maxConcurrent > 0 =>
          /\ chunks = ceilDiv(Len(companies), maxConcurrent)
          /\ delays = IF chunks = 0 THEN 0 ELSE chunks - 1

\* five companies, two at a time: three chunks and two delays
C6_Witness ==
    /\ bPc = "done"
    /\ Len(companies) = 5
    /\ maxConcurrent = 2
    /\ chunks = 3
    /\ delays = 2

\* C7: the returned array is sorted by descending total_score and every error
\* record comes after every successfully researched company.
C7_ErrorsLast ==
    bPc = "done" =>
        /\ \A i, j \in 1..Len(results) :
              i < j => sortScore(results[i]) >= sortScore(results[j])
        /\ \A i, j \in 1..Len(results) :
              results[i].isError /\ ~results[j].isError => j < i

isPlaceholder(c, score) ==
    /\ c.contact.source = "research_needed"
    /\ c.contact.email = <<>>
    /\ c.qualityScore.score = score
    /\ ~c.recommendedForOutreach

\* C8: when no contact was collected (no website, or every probe failed or
\* yielded nothing), findKeyContacts returns exactly the two placeholders,
\* scored 40 and 35, neither recommended for outreach.
C8_TwoPlaceholders ==
    fkPc = "done" /\ websiteUrl.kind \in {"null", "string"} /\ contacts = <<>> =>
        /\ Len(scoredContacts) = 2
        /\ isPlaceholder(scoredContacts[1], 40)
        /\ isPlaceholder(scoredContacts[2], 35)

\* a website whose pages all failed or held no contact
C8_Witness ==
    /\ fkPc = "done"
    /\ websiteUrl.kind = "string"
    /\ contacts = <<>>
    /\ Len(scoredContacts) = 2

\* C9: the list findKeyContacts returns never has more than 5 entries.
C9_AtMostFive == fkPc = "done" => Len(scoredContacts) <= 5

\* more than five contacts were collected and five are returned
C9_Witness ==
    fkPc = "done" /\ Len(contacts) > 5 /\ Len(scoredContacts) = 5

rankOf(c) == calculateContactPriorityScore(c.title)

occurrences(s, x) == Cardinality({ i \in 1..Len(s) : s[i] = x })

\* C11: the list scoreAndVerifyContacts returns holds exactly one scored
\* contact per input contact (the contact's fields with its own quality score,
\* email validation, recommendation and risk) and is ordered by non-increasing
\* qualityScore.score.
C11_ScoredAndSorted ==
    fkPc = "verified" =>
        /\ Len(scoredContacts) = Len(contacts)
        /\ \A i \in 1..Len(contacts) :
              occurrences(scoredContacts, scoreContact(contacts[i], websiteUrl))
                  = occurrences(contacts, contacts[i])
        /\ \A i \in 1..Len(scoredContacts) :
              /\ scoredContacts[i].scored
              /\ scoredContacts[i].qualityScore
                    = calculateContactQualityScore(scoredContacts[i].contact)
        /\ \A i, j \in 1..Len(scoredContacts) :
              i < j => scoredContacts[i].qualityScore.score
                          >= scoredContacts[j].qualityScore.score

\* the supplied contacts were in ascending score order and come back reversed
C11_Witness ==
    /\ fkPc = "verified"
    /\ Len(contacts) = 2
    /\ calculateContactQualityScore(contacts[1]).score
          < calculateContactQualityScore(contacts[2]).score
    /\ scoredContacts[1].contact = contacts[2]
    /\ scoredContacts[2].contact = contacts[1]

\* C12: without a website analyzeCompanyWebsite returns the empty analysis, and
\* so it does when the fetch or the parse fails; researchCompany then still
\* goes on to score, and its result has total_score 0 and recommendation
\* NOT_QUALIFIED.
C12_EmptyAnalysisNotQualified ==
    /\ rcPc \in {"analyzed", "done"} /\ companyWebsite = Null => websiteAnalysis.empty
    /\ rcPc = "analyzed" /\ websiteAnalysis.empty => ENABLED RcScore
    /\ rcPc = "done" /\ websiteAnalysis.empty =>
          /\ scoring.total_score = 0
          /\ scoring.percentage = 0
          /\ recommendation = "NOT_QUALIFIED"

\* a research whose website was resolved but whose page could not be fetched or
\* parsed, completed
C12_Witness ==
    /\ rcPc = "done"
    /\ companyWebsite # Null
    /\ websiteAnalysis.empty
    /\ recommendation = "NOT_QUALIFIED"

factorSum(b) ==
    b.platform_recognition + b.platform_type + b.business_indicators
    + b.technical_fit + b.pricing_model + b.growth_indicators

\* round(x / 120 * 100), halves rounded up
roundedPercent(x) == (x * 200 + 120) \div 240

\* the analysis of the example: a title naming bubble, type no-code, every
\* business indicator, api and developers, pricing with a subscription, two
\* growth tags
exampleAnalysis(a) ==
    /\ ~a.empty
    /\ a.title = {"bubble"} /\ a.platform_type = "no-code"
    /\ a.has_customers /\ a.has_funding /\ a.has_careers /\ a.has_case_studies
    /\ a.has_api /\ a.has_developers /\ ~a.has_enterprise
    /\ a.has_pricing /\ a.pricing_model = "subscription" /\ a.price_indicators = {}
    /\ Len(a.growth_indicators) = 2

\* C13: total_score is the sum of the six capped factor contributions and
\* percentage is round(total_score / 120 * 100); the example analysis scores
\* 116, 97 percent, HOT_PROSPECT.
C13_SumAndPercentage ==
    rcPc = "fitted" =>
        /\ scoring.total_score = factorSum(scoring.breakdown)
        /\ scoring.percentage = roundedPercent(scoring.total_score)
        /\ exampleAnalysis(websiteAnalysis) =>
              /\ scoring.total_score = 116
              /\ scoring.percentage = 97
              /\ recommendation = "HOT_PROSPECT"

\* the points of the quality score as the score composition states them
statedTitlePoints(rank) ==
    IF rank <= 2 THEN 40 ELSE IF rank <= 4 THEN 35 ELSE IF rank <= 5 THEN 25
    ELSE IF rank <= 6 THEN 15 ELSE 5

statedEmailPoints(c) ==
    IF c.email = <<>> THEN 0 ELSE IF c.verified THEN 25 ELSE 15

statedSourcePoints(c) ==
    CASE c.source = "website_team_page" -> 20
      [] c.source = "contact_page"      -> 15
      [] c.source = "text_extraction"   -> 10
      [] OTHER                          -> 5

statedRecencyPoints(c) ==
    IF ~c.extractedAt.present THEN 0
    ELSE IF c.extractedAt.age <= 1 THEN 5
    ELSE IF c.extractedAt.age <= 7 THEN 3
    ELSE IF c.extractedAt.age <= 30 THEN 1
    ELSE 0

statedQuality(c) ==
    statedTitlePoints(rankOf(c)) + statedEmailPoints(c) + statedSourcePoints(c)
    + (IF c.linkedin THEN 10 ELSE 0) + statedRecencyPoints(c)

\* C14: the quality score of a contact is title points + email points + source
\* points + 10 for a LinkedIn link + recency points, within 0..100; a Founder
\* from a team page with a (verified) email on the company's own domain, a
\* LinkedIn link and a fresh extraction scores 100, risk low, recommended.
C14_QualityComposition ==
    fkPc = "verified" /\ Len(contacts) = 1 =>
        LET c == contacts[1]
            r == scoredContacts[1]
        IN  /\ r.contact = c
            /\ r.qualityScore.score = statedQuality(c)
            /\ r.qualityScore.score \in 0..100
            /\ ( /\ c.title = s_Founder /\ c.source = "website_team_page"
                 /\ c.email = m_pat /\ c.verified /\ websiteUrl.kind = "string"
                 /\ c.linkedin /\ c.extractedAt = JustNow )
               => /\ r.qualityScore.score = 100
                  /\ r.outreachRisk = "low"
                  /\ r.recommendedForOutreach

\* the Founder of the example, scored 100
C14_Witness ==
    /\ fkPc = "verified"
    /\ Len(contacts) = 1
    /\ contacts[1].title = s_Founder
    /\ contacts[1].source = "website_team_page"
    /\ contacts[1].email = m_pat /\ websiteUrl.kind = "string"
    /\ contacts[1].linkedin /\ contacts[1].extractedAt = JustNow
    /\ scoredContacts[1].qualityScore.score = 100
    /\ scoredContacts[1].outreachRisk = "low"
    /\ scoredContacts[1].recommendedForOutreach

\* C16: the batch_research tool returns, for every name of company_names, the
\* research of the company of that name: a record whose input is that name
\* and whose company.name equals it.
C16_ToolResearchesNamed ==
    bPc = "done" =>
        /\ Len(results) = Len(companies)
        /\ \A k \in 1..Len(companies) :
              \E i \in 1..Len(results) : results[i].input = companies[k]
        /\ \A i \in 1..Len(results) :
              /\ ~results[i].isError
              /\ results[i].company_name = results[i].input.asString

\* C17: over any sequence of /api/email-action calls an email's status
\* becomes 'sent' only from 'approved', never directly from 'pending' or
\* 'rejected'.
C17_SentOnlyFromApproved ==
    [][ \A id \in 1..Len(emailsData) :
            ( /\ id <= Len(emailsData')
              /\ emailsData[id].status # "sent"
              /\ emailsData'[id].status = "sent" )
            => emailsData[id].status = "approved" ]_vars

\* c was extracted from a team-page element that has no mailto link and no
\* email in its text, so its email is the synthesized firstname.lastname@domain
synthesizedContact(c) ==
    /\ websiteUrl.kind = "string"
    /\ c.email # <<>>
    /\ \E el \in ElementSamples :
          /\ el.mailto = <<>>
          /\ el.textEmail = <<>>
          /\ teamElementContact[websiteUrl][el] = <<c>>

\* C18: a contact whose email was synthesized has verified = false and does
\* not earn the 25 points of a verified email.
C18_SynthesizedNeverVerified ==
    fkPc = "done" =>
        \A i \in 1..Len(scoredContacts) :
            synthesizedContact(scoredContacts[i].contact) =>
                /\ ~scoredContacts[i].contact.verified
                /\ scoredContacts[i].qualityScore.breakdown.email_verification < 25

\* the fixed rank of a title naming exactly one role (or none)
statedRank(title) ==
    CASE title = s_CEO                       -> 1
      [] title = s_Founder                   -> 2
      [] title = s_CTO                       -> 3
      [] title = s_CPO                       -> 4
      [] title = s_VP                        -> 5
      [] title = s_Director                  -> 6
      [] title = <<"H">> \o Tail(s_head_of)  -> 7
      [] title = capitalize(s_manager)       -> 8
      [] OTHER                               -> 9

\* C19: a title naming exactly one role has that role's rank (ceo 1, founder
\* 2, cto 3, cpo 4, vp 5, director 6, head 7, manager 8, anything else or no
\* title 9) and the title points of that rank: 'Director' has rank 6 and 15
\* points, 'Head of' rank 7.
C19_FixedTitleRank ==
    fkPc = "verified" /\ Len(contacts) = 1 /\ contacts[1].title \in QualityTitles =>
        /\ rankOf(contacts[1]) = statedRank(contacts[1].title)
        /\ scoredContacts[1].qualityScore.breakdown.title_priority
              = statedTitlePoints(statedRank(contacts[1].title))

sameNameAndTitle(c, d) ==
    /\ toLowerCase(c.name) = toLowerCase(d.name)
    /\ toLowerCase(c.title) = toLowerCase(d.title)

\* C20: the list findKeyContacts returns has no two contacts with the same
\* lower-cased (name, title) pair.
C20_NoDuplicateNameTitle ==
    fkPc = "done" =>
        \A i, j \in 1..Len(scoredContacts) :
            i < j => ~sameNameAndTitle(scoredContacts[i].contact, scoredContacts[j].contact)

\* the order of the team-page paths as stated
statedTeamPaths ==
    << "/team", "/about", "/leadership", "/about-us", "/our-team", "/founders",
       "/management", "/executive-team", "/people", "/company/team",
       "/company/leadership" >>

\* C21: the team paths are fetched one at a time in the stated order: the
\* first fetch is /team, a fetch follows another only as the next path of the
\* list and only while no contact has been found, so once a path has yielded
\* a contact no later team path is fetched.
C21_TeamPathsInOrder ==
    [][ /\ teamPaths = statedTeamPaths
        /\ fkPc' = "team" =>
              /\ contacts' = <<>>
              /\ teamIdx' \in 1..Len(statedTeamPaths)
              /\ IF fkPc = "team" THEN teamIdx' = teamIdx + 1
                 ELSE fkPc = "start" /\ teamIdx' = 1
        /\ fkPc = "team" /\ contacts' # <<>> => fkPc' = "contactPages" ]_vars

\* the team-url loop was left with contacts found on a team page
C21_Witness ==
    /\ fkPc = "contactPages"
    /\ contacts # <<>>

\* the probed domains that answer with a status below 400
answering == { i \in 1..Len(responses) : responses[i] > 0 /\ responses[i] < 400 }

\* C22: for a name that matches no alias findCompanyWebsite returns the first
\* of the four probed urls (.com, www .com, .io, www .io) that answers with a
\* status below 400, and null when none does; it always returns.
C22_FirstRespondingDomain ==
    /\ possibleDomains = << "https://acme.com", "https://www.acme.com",
                            "https://acme.io", "https://www.acme.io" >>
    /\ fwPc = "done" /\ fwName = "acme" =>
          IF answering = {} THEN fwResult = Null
          ELSE \E i \in answering :
                  /\ \A j \in answering : i <= j
                  /\ fwResult = possibleDomains[i]

\* the majorPlatforms names occurring in a website url
namesInUrl(url) == IF url = "https://bubble.io" THEN {"bubble"} ELSE {}

\* C23: platform_recognition is the table value of the first platform name
\* occurring in the page title or in the company's website url, so a company
\* at https://bubble.io is recognised whatever its title says.
C23_RecognisedByTitleOrUrl ==
    rcPc = "done" /\ ~websiteAnalysis.empty =>
        scoring.breakdown.platform_recognition =
            recognitionFrom(1, websiteAnalysis.title \cup namesInUrl(companyWebsite))

\* the members of a list
tagsOf(list) == { list[i] : i \in 1..Len(list) }

\* how many of the five signals the analysis reports as detected
detectedSignals(a) ==
    (IF a.has_customers THEN 1 ELSE 0) + (IF a.has_funding THEN 1 ELSE 0) +
    (IF a.has_careers THEN 1 ELSE 0) + (IF a.has_press THEN 1 ELSE 0) +
    (IF a.has_case_studies THEN 1 ELSE 0)

\* C24: in the business indicators of an analysed page every detected signal
\* sets its boolean and appends its tag: funding, hiring, press and
\* case_studies are in growth_indicators exactly when has_funding,
\* has_careers, has_press and has_case_studies are true, and the number of
\* tags is the number of true booleans among the five, has_customers included.
C24_EverySignalTagged ==
    rcPc \in {"analyzed", "done"} /\ ~websiteAnalysis.empty =>
        LET a == websiteAnalysis
            tags == tagsOf(a.growth_indicators)
        IN  /\ a.has_funding <=> "funding" \in tags
            /\ a.has_careers <=> "hiring" \in tags
            /\ a.has_press <=> "press" \in tags
            /\ a.has_case_studies <=> "case_studies" \in tags
            /\ Len(a.growth_indicators) = detectedSignals(a)

\* the six factors of a breakdown
sixFactors ==
    {"platform_recognition", "platform_type", "business_indicators",
     "technical_fit", "pricing_model", "growth_indicators"}

\* breakdown[k] is a number: the key was assigned (it reads as undefined
\* otherwise), and assigned a number
factorIsNumber(breakdown, k) == k \in breakdown.keys /\ breakdown[k] \in Nat

\* C25: the breakdown of every scoring maps each of the six factors to a
\* number, and platform_type to 0 when the analysis has no platform_type
\* (the empty analysis of a company without a website).
C25_SixFactorsPresent ==
    rcPc = "done" =>
        /\ \A k \in sixFactors : factorIsNumber(scoring.breakdown, k)
        /\ websiteAnalysis.empty =>
              /\ factorIsNumber(scoring.breakdown, "platform_type")
              /\ scoring.breakdown.platform_type = 0

\* C26: prospectsData never holds two prospects with the same lower-cased
\* company name, however research commands interleave and whatever their
\* company lists repeat.
C26_NoDuplicateProspect ==
    \A i, j \in 1..Len(prospectsData) :
        i # j => lowerCaseName(prospectsData[i]) # lowerCaseName(prospectsData[j])

\* C27: while the child process last spawned is running, mcpStatus is not
\* 'disconnected': the close event of a killed earlier process does not
\* overwrite the status of its replacement.
C27_StatusOfCurrentProcess ==
    mcpProcess # NoProcess /\ procs[mcpProcess] = "running" => mcpStatus # "disconnected"

\* C28: batchResearch terminates for every finite company list and every
\* integer maxConcurrent >= 0: each pass of its loop consumes at least one
\* company, so the loop body is entered at most companies.length times.
C28_PassesBoundedByList == chunks <= Len(companies)

\* the keywords the executivePatterns of extractContactsFromText capture and
\* titleMap rewrites
textKeywords == {s_ceo, s_founder, s_cto, s_cpo, s_vp}

\* C29: a contact found by the text fallback keeps the seniority of the
\* keyword it matched: for every keyword k of ceo, founder, cto, cpo, vp a
\* returned text contact titled normalizeTitle(k) has the rank of k and the
\* title points of that rank, so a text-extracted CEO has rank 1 and 40 points.
C29_TextContactKeepsRank ==
    fkPc = "done" =>
        \A i \in 1..Len(scoredContacts) : \A k \in textKeywords :
            LET c == scoredContacts[i].contact IN
            c.source = "text_extraction" /\ c.title = normalizeTitle(k) =>
                /\ rankOf(c) = calculateContactPriorityScore(k)
                /\ scoredContacts[i].qualityScore.breakdown.title_priority
                      = statedTitlePoints(calculateContactPriorityScore(k))

\* the five values of a quality breakdown, added up
breakdownSum(b) ==
    b.title_priority + b.email_verification + b.source_quality
        + b.linkedin_profile + b.recency

\* C30: for every scored contact qualityScore.score is the sum of the five
\* values of qualityScore.breakdown, whatever the age of extractedAt.
C30_ScoreIsBreakdownSum ==
    fkPc = "verified" =>
        \A i \in 1..Len(scoredContacts) :
            scoredContacts[i].qualityScore.score
                = breakdownSum(scoredContacts[i].qualityScore.breakdown)

====
